---- MODULE Spec2Model ----
(***************************************************************************)
(* DVSorder: the scanners' record-id sequences (icp_get_nth, ice_get_nth), *)
(* their inverse tables, unshuffle() and the process_files() loop of       *)
(* src/DVSorder.py.                                                        *)
(*                                                                         *)
(* Python lists are sequences (1-based here, 0-based in the source); a     *)
(* Python exception is the value of `raised`.  Python integers are         *)
(* unbounded; every product below is split so that it stays within the     *)
(* model checker's 32-bit integers without changing its value.             *)
(***************************************************************************)
EXTENDS Integers, Sequences, FiniteSets

VARIABLES
    pc,               \* position of the program: see the three specifications
    record_ids,       \* unshuffle: the argument record_ids (a list of integers)
    scanner_model,    \* unshuffle: the argument scanner_model
    raised,           \* the exception the last call raised, or "none"
    results,          \* unshuffle: the returned list of (index, record_id)
    fit,              \* unshuffle: the second returned value (tagged, see IntVal)
    count_ballots,    \* process_files: count_ballots
    count_vulnerable, \* process_files: count_vulnerable
    log,              \* history: one entry per batch process_files has taken
    percent,          \* process_files: the percentage of the summary line
    tbl_i,            \* table build: the loop variable i of the comprehensions
    icp_table,        \* table build: icp_inverse so far (key -> position)
    ice_table         \* table build: ice_inverse so far (key -> position)

vars == <<pc, record_ids, scanner_model, raised, results, fit,
          count_ballots, count_vulnerable, log, percent,
          tbl_i, icp_table, ice_table>>

callVars == <<record_ids, scanner_model, raised, results, fit>>
aggVars == <<count_ballots, count_vulnerable, log, percent>>
tblVars == <<tbl_i, icp_table, ice_table>>

(***************************************************************************)
(* Program constants.                                                      *)
(***************************************************************************)
Modulus == 1000000
Multiplier == 864803
d == <<5, 0, 8, 3, 2, 6, 1, 9, 4, 7>>
LowWindow == 100
HighWindow == 999900
Shift == 500000
PlausibleFactor == 10
ICP == "ImagecastPrecinct"
ICE == "ImagecastEvolution"
None == "None"

(***************************************************************************)
(* Values of Python's dynamic types that the second result of unshuffle    *)
(* takes: an int, or a list.                                               *)
(***************************************************************************)
IntVal(k) == [tag |-> "int", v |-> k]
ListVal(s) == [tag |-> "list", v |-> s]

(***************************************************************************)
(* 864803*n % 1000000 for n in 0..999999.  864803*n exceeds 32 bits, so n  *)
(* is split at its thousands: 864803*(1000*h + l) = 1000*(864803*h) +      *)
(* 864803*l, and 1000*y % 1000000 = 1000*(y % 1000).                       *)
(***************************************************************************)
MulMod(a, n) ==
    (((a * (n \div 1000)) % 1000) * 1000 + a * (n % 1000)) % Modulus

Digit(x, k) ==
    CASE k = 0 -> x % 10
      [] k = 1 -> (x \div 10) % 10
      [] k = 2 -> (x \div 100) % 10
      [] k = 3 -> (x \div 1000) % 10
      [] k = 4 -> (x \div 10000) % 10
      [] k = 5 -> x \div 100000

icp_get_nth_wrong_multiplier(n) ==
    LET x == MulMod(864800, n) IN
    d[Digit(x, 2) + 1] + d[Digit(x, 3) + 1] * 10 + d[Digit(x, 1) + 1] * 100
      + d[Digit(x, 5) + 1] * 1000 + d[Digit(x, 0) + 1] * 10000
      + d[Digit(x, 4) + 1] * 100000

icp_get_nth(n) ==
    LET x == MulMod(Multiplier, n) IN
    d[Digit(x, 2) + 1] + d[Digit(x, 3) + 1] * 10 + d[Digit(x, 1) + 1] * 100
      + d[Digit(x, 5) + 1] * 1000 + d[Digit(x, 0) + 1] * 10000
      + d[Digit(x, 4) + 1] * 100000

ice_get_nth(n) ==
    LET x == MulMod(Multiplier, n) IN
    d[Digit(x, 1) + 1] + d[Digit(x, 5) + 1] * 10 + d[Digit(x, 0) + 1] * 100
      + d[Digit(x, 4) + 1] * 1000 + d[Digit(x, 2) + 1] * 10000
      + d[Digit(x, 3) + 1] * 100000

(***************************************************************************)
(* icp_inverse[id] and ice_inverse[id]: the value the dict built by        *)
(*   {icp_get_nth(i): i for i in range(1000000)}                           *)
(* holds at key id.  The dict has one key per position (C1), so its value  *)
(* at id is the one i with icp_get_nth(i) = id; that i is computed here by *)
(* undoing the three steps of icp_get_nth instead of searching a million   *)
(* positions: the digit placement, the substitution d, and the             *)
(* multiplication (979467 * 864803 = 1 mod 1000000).  TableAgrees checks   *)
(* this value against the table as the comprehension builds it.            *)
(***************************************************************************)
d_index(v) == (CHOOSE k \in 1..10 : d[k] = v) - 1
MultiplierInverse == CHOOSE k \in {979467} : MulMod(Multiplier, k) = 1

FromDigits(x0, x1, x2, x3, x4, x5) ==
    x0 + x1 * 10 + x2 * 100 + x3 * 1000 + x4 * 10000 + x5 * 100000

icp_inverse(id) ==
    LET x == FromDigits(d_index(Digit(id, 4)), d_index(Digit(id, 2)),
                        d_index(Digit(id, 0)), d_index(Digit(id, 1)),
                        d_index(Digit(id, 5)), d_index(Digit(id, 3)))
    IN MulMod(MultiplierInverse, x)

ice_inverse(id) ==
    LET x == FromDigits(d_index(Digit(id, 2)), d_index(Digit(id, 0)),
                        d_index(Digit(id, 4)), d_index(Digit(id, 5)),
                        d_index(Digit(id, 3)), d_index(Digit(id, 1)))
    IN MulMod(MultiplierInverse, x)

(***************************************************************************)
(* Python's built-ins on lists.                                            *)
(***************************************************************************)
Range(s) == {s[k] : k \in DOMAIN s}
min(s) == CHOOSE x \in Range(s) : \A y \in Range(s) : x <= y
max(s) == CHOOSE x \in Range(s) : \A y \in Range(s) : x >= y
len(s) == Len(s)

(***************************************************************************)
(* list.sort(key=lambda t: t[0]): ascending by the first component and     *)
(* stable (items with equal keys keep their order).  Item k lands after    *)
(* the items with a smaller key and the earlier items with the same key.   *)
(***************************************************************************)
sort_rank(s, k) ==
    Cardinality({j \in DOMAIN s : s[j][1] < s[k][1]
                                  \/ (s[j][1] = s[k][1] /\ j < k)}) + 1

sort_unsorted(s) == s

sort(s) == [r \in DOMAIN s |-> s[CHOOSE k \in DOMAIN s : sort_rank(s, k) = r]]

(***************************************************************************)
(* unshuffle.reduce_indices                                                *)
(***************************************************************************)
reduce_indices_no_shift(indices) ==
    LET lowest == min(indices) IN
    [k \in DOMAIN indices |-> indices[k] - lowest]

reduce_indices(indices) ==
    LET lowest0 == min(indices)
        highest0 == max(indices)
        shifted == IF lowest0 < LowWindow /\ highest0 > HighWindow
                   THEN [k \in DOMAIN indices |->
                            (indices[k] + Shift) % Modulus]
                   ELSE indices
        lowest == min(shifted)
    IN [k \in DOMAIN indices |-> shifted[k] - lowest]

(***************************************************************************)
(* unshuffle.count_missing                                                 *)
(***************************************************************************)
count_missing_off_by_one(indices) ==
    LET span == max(indices) - min(indices) IN
    IF span > len(indices) * PlausibleFactor THEN Modulus
    ELSE span - len(indices)

count_missing(indices) ==
    LET span == max(indices) - min(indices) + 1 IN
    IF span > len(indices) * PlausibleFactor THEN Modulus
    ELSE span - len(indices)

(***************************************************************************)
(* unshuffle: what the call does, as [raised, results, missing].           *)
(* The comparison of the unspecified-model branch is prefer_icp; the       *)
(* models the if/elif chain has a branch for are model_known.              *)
(***************************************************************************)
model_known_any(model) == TRUE

model_known(model) == model \in {ICP, ICE, None}

prefer_icp_reversed(icp_missing, ice_missing) == icp_missing > ice_missing

prefer_icp(icp_missing, ice_missing) == icp_missing < ice_missing

Raise(e) == [raised |-> e, results |-> <<>>, missing |-> ListVal(<<>>)]
Return(r, m) == [raised |-> "none", results |-> r, missing |-> m]

unshuffle(ids_in, model) ==
    IF len(ids_in) # Cardinality(Range(ids_in)) THEN Raise("AssertionError")
    ELSE IF len(ids_in) = 0 THEN Return(<<>>, ListVal(<<>>))
    ELSE
      LET ids == [k \in DOMAIN ids_in |-> ids_in[k] % Modulus]
          icp_indices == reduce_indices([k \in DOMAIN ids |-> icp_inverse(ids[k])])
          ice_indices == reduce_indices([k \in DOMAIN ids |-> ice_inverse(ids[k])])
          icp_missing == count_missing(icp_indices)
          ice_missing == count_missing(ice_indices)
          known == model_known(model)
          use_icp == \/ model = ICP
                     \/ model = None /\ prefer_icp(icp_missing, ice_missing)
          indices == IF use_icp THEN icp_indices ELSE ice_indices
          missing == IF use_icp THEN icp_missing ELSE ice_missing
      IN IF ~known THEN Raise("AttackFailed")
         ELSE IF missing = Modulus THEN Raise("AttackFailed")
         ELSE Return(sort([k \in DOMAIN ids |-> <<indices[k], ids[k]>>]),
                     IntVal(missing))

(***************************************************************************)
(* Bounds of the model, and the inputs drawn within them.                  *)
(***************************************************************************)
MaxOff == 5        \* small batches: positions base + a subset of 0..MaxOff
MaxRun == 12       \* two-run batches: at most MaxRun identifiers
MaxRawLen == 2     \* batches of raw record ids: at most MaxRawLen of them
MaxBatches == 3    \* process_files: batches taken in one run
SampleWidth == 16  \* table build: positions visited in each window

Models == {ICP, ICE, None, "ImagecastCentral"}

generate(variant, p) == IF variant = ICP THEN icp_get_nth(p) ELSE ice_get_nth(p)
locate(variant, id) == IF variant = ICP THEN icp_inverse(id) ELSE ice_inverse(id)

\* The elements of a set of integers, ascending and descending.
RECURSIVE Ascending(_)
Ascending(T) ==
    IF T = {} THEN <<>>
    ELSE LET m == CHOOSE x \in T : \A y \in T : x <= y
         IN <<m>> \o Ascending(T \ {m})
Descending(T) ==
    LET a == Ascending(T) IN [k \in DOMAIN a |-> a[Len(a) + 1 - k]]

\* Offsets 0..a-1, then c more after g skipped ones.
TwoRuns(a, g, c) == [k \in 1..(a + c) |-> IF k <= a THEN k - 1 ELSE k - 1 + g]

SmallOffsets(top) ==
    UNION {{Ascending(T), Descending(T)} : T \in (SUBSET (0..top)) \ {{}}}
RunOffsets ==
    {r \in {TwoRuns(a, g, c) : a \in 1..MaxRun, g \in {0, 1, 8, 98, 99, 100},
                               c \in 0..MaxRun} : Len(r) <= MaxRun}
Bases ==
    {0, 50, 499990, Modulus - 101, Modulus - 100, Modulus - 99,
     Modulus - 12, Modulus - 2, Modulus - 1}

Generated(variant, base, offs) ==
    [k \in DOMAIN offs |-> generate(variant, (base + offs[k]) % Modulus)]

RawIds == {1, 2, Modulus + 1}
RawBatches == UNION {[1..n -> RawIds] : n \in 0..MaxRawLen}

Inputs ==
    {Generated(v, b, o) : v \in {ICP, ICE}, b \in Bases,
                          o \in SmallOffsets(MaxOff) \cup RunOffsets}
      \cup RawBatches

\* the batches the readers hand to process_files
AggInputs ==
    {Generated(v, b, o) : v \in {ICP, ICE}, b \in {0, Modulus - 1},
                          o \in {<<0>>, <<1, 0>>}}
      \cup {<<>>, <<1, 2>>, <<1, 1>>, <<1, Modulus + 1>>}

Unset == [tag |-> "unset", v |-> 0]
CallIdle ==
    /\ record_ids = <<>>
    /\ scanner_model = None
    /\ raised = "none"
    /\ results = <<>>
    /\ fit = Unset
AggIdle ==
    /\ count_ballots = 0
    /\ count_vulnerable = 0
    /\ log = <<>>
    /\ percent = -1
TableIdle ==
    /\ tbl_i = 0
    /\ icp_table = <<>>
    /\ ice_table = <<>>

(***************************************************************************)
(* SpecTable: the two dict comprehensions that build icp_inverse and       *)
(* ice_inverse, visiting in ascending order the positions of Sample (the   *)
(* source visits all of range(1000000)).                                   *)
(***************************************************************************)
WindowStarts ==
    {0, 92, 992, 9992, 99992, 499992, 999892, Modulus - SampleWidth}
Sample ==
    UNION {{w + k : k \in 0..(SampleWidth - 1)} : w \in WindowStarts}
NextSample(i) ==
    IF \E s \in Sample : s > i
    THEN CHOOSE s \in Sample : s > i /\ \A t \in Sample : t > i => s <= t
    ELSE Modulus

\* dict: table[key] = value, replacing the value of a key already present
DictSet(table, key, value) ==
    [k \in DOMAIN table \cup {key} |-> IF k = key THEN value ELSE table[k]]

TableInit ==
    /\ pc = "build"
    /\ TableIdle
    /\ CallIdle
    /\ AggIdle

TableStep ==
    /\ pc = "build"
    /\ tbl_i < Modulus
    /\ icp_table' = DictSet(icp_table, icp_get_nth(tbl_i), tbl_i)
    /\ ice_table' = DictSet(ice_table, ice_get_nth(tbl_i), tbl_i)
    /\ tbl_i' = NextSample(tbl_i)
    /\ pc' = IF NextSample(tbl_i) = Modulus THEN "built" ELSE "build"
    /\ UNCHANGED <<callVars, aggVars>>

TableNext == TableStep
SpecTable == TableInit /\ [][TableNext]_vars

(***************************************************************************)
(* SpecUnshuffle: one call unshuffle(record_ids, scanner_model).           *)
(***************************************************************************)
UnshuffleInit ==
    /\ pc = "call"
    /\ record_ids \in Inputs
    /\ scanner_model \in Models
    /\ raised = "none"
    /\ results = <<>>
    /\ fit = Unset
    /\ AggIdle
    /\ TableIdle

UnshuffleReturns ==
    /\ pc = "call"
    /\ LET r == unshuffle(record_ids, scanner_model) IN
         /\ r.raised = "none"
         /\ results' = r.results
         /\ fit' = r.missing
    /\ pc' = "returned"
    /\ UNCHANGED <<record_ids, scanner_model, raised, aggVars, tblVars>>

UnshuffleRaises ==
    /\ pc = "call"
    /\ LET r == unshuffle(record_ids, scanner_model) IN
         /\ r.raised # "none"
         /\ raised' = r.raised
    /\ pc' = "raised"
    /\ UNCHANGED <<record_ids, scanner_model, results, fit, aggVars, tblVars>>

UnshuffleNext == UnshuffleReturns \/ UnshuffleRaises
SpecUnshuffle == UnshuffleInit /\ [][UnshuffleNext]_vars

(***************************************************************************)
(* Spec: process_files.  Each step takes the next (key, batch) item of the *)
(* mappings the readers yield and runs the whole loop body on it; the      *)
(* readers may yield any batch with any scanner model, and may stop after  *)
(* any number of batches.  An exception other than AttackFailed leaves     *)
(* process_files: the run ends without a summary line (pc = "crashed").    *)
(***************************************************************************)
Init ==
    /\ pc = "loop"
    /\ CallIdle
    /\ AggIdle
    /\ TableIdle

Entry(batch, r, tag) == [size |-> len(batch), raised |-> r, tag |-> tag]

\* unshuffle returns: "appears vulnerable", the batch counts as vulnerable
BatchVulnerable ==
    /\ pc = "loop"
    /\ Len(log) < MaxBatches
    /\ \E batch \in AggInputs, model \in Models :
         LET r == unshuffle(batch, model) IN
           /\ r.raised = "none"
           /\ record_ids' = batch
           /\ scanner_model' = model
           /\ raised' = "none"
           /\ results' = r.results
           /\ fit' = r.missing
           /\ count_ballots' = count_ballots + len(batch)
           /\ count_vulnerable' = count_vulnerable + len(batch)
           /\ log' = Append(log, Entry(batch, "none", "vulnerable"))
    /\ UNCHANGED <<pc, percent, tblVars>>

\* unshuffle raises AttackFailed: "appears safe", and the loop continues
BatchSafe_counts_vulnerable ==
    /\ pc = "loop"
    /\ Len(log) < MaxBatches
    /\ \E batch \in AggInputs, model \in Models :
         LET r == unshuffle(batch, model) IN
           /\ r.raised = "AttackFailed"
           /\ record_ids' = batch
           /\ scanner_model' = model
           /\ raised' = "AttackFailed"
           /\ count_ballots' = count_ballots + len(batch)
           /\ count_vulnerable' = count_vulnerable + len(batch)
           /\ log' = Append(log, Entry(batch, "AttackFailed", "safe"))
    /\ UNCHANGED <<pc, results, fit, percent, tblVars>>

BatchSafe ==
    /\ pc = "loop"
    /\ Len(log) < MaxBatches
    /\ \E batch \in AggInputs, model \in Models :
         LET r == unshuffle(batch, model) IN
           /\ r.raised = "AttackFailed"
           /\ record_ids' = batch
           /\ scanner_model' = model
           /\ raised' = "AttackFailed"
           /\ count_ballots' = count_ballots + len(batch)
           /\ log' = Append(log, Entry(batch, "AttackFailed", "safe"))
    /\ UNCHANGED <<pc, results, fit, count_vulnerable, percent, tblVars>>

\* unshuffle fails its assertion: nothing catches it
BatchCrash ==
    /\ pc = "loop"
    /\ Len(log) < MaxBatches
    /\ \E batch \in AggInputs, model \in Models :
         LET r == unshuffle(batch, model) IN
           /\ r.raised = "AssertionError"
           /\ record_ids' = batch
           /\ scanner_model' = model
           /\ raised' = "AssertionError"
           /\ count_ballots' = count_ballots + len(batch)
           /\ log' = Append(log, Entry(batch, "AssertionError", "none"))
    /\ pc' = "crashed"
    /\ UNCHANGED <<results, fit, count_vulnerable, percent, tblVars>>

\* the summary line: int(100*count_vulnerable/count_ballots).  The quotient
\* is not negative, so int() of it is the integer quotient.
Report ==
    /\ pc = "loop"
    /\ count_ballots # 0
    /\ percent' = (100 * count_vulnerable) \div count_ballots
    /\ pc' = "reported"
    /\ UNCHANGED <<callVars, count_ballots, count_vulnerable, log, tblVars>>

\* the summary line over no ballots at all: division by zero
ReportCrash ==
    /\ pc = "loop"
    /\ count_ballots = 0
    /\ raised' = "ZeroDivisionError"
    /\ pc' = "crashed"
    /\ UNCHANGED <<record_ids, scanner_model, results, fit, aggVars, tblVars>>

Next ==
    \/ BatchVulnerable
    \/ BatchSafe
    \/ BatchCrash
    \/ Report
    \/ ReportCrash
Spec == Init /\ [][Next]_vars

(***************************************************************************)
(* What the properties below read from a state.                            *)
(***************************************************************************)
Called == pc \in {"returned", "raised"}
Named == scanner_model \in {ICP, ICE}
RawDistinct == Cardinality(Range(record_ids)) = Len(record_ids)

\* the positions of the identifiers under the requested variant, in the
\* order of record_ids, and as a set
Pos == [k \in DOMAIN record_ids |->
           locate(scanner_model, record_ids[k] % Modulus)]
S == Range(Pos)
n == Len(record_ids)

\* record_ids is generate(p) for n distinct positions p
FromPositions ==
    /\ n >= 1
    /\ \A k \in DOMAIN record_ids :
         record_ids[k] = generate(scanner_model, Pos[k])
    /\ Cardinality(S) = n

MinOf(T) == CHOOSE x \in T : \A y \in T : x <= y
MaxOf(T) == CHOOSE x \in T : \A y \in T : x >= y
WrapTest == MinOf(S) < 100 /\ MaxOf(S) > 999900
Contiguous == MaxOf(S) - MinOf(S) + 1 = n

\* the length of the cyclic window that starts at p and covers S
WindowFrom(p) == MaxOf({(q - p + Modulus) % Modulus : q \in S}) + 1
ShortestWindow == MinOf({WindowFrom(p) : p \in S})
\* a shortest window that runs past position 999999 into position 0
CrossingStarts ==
    {p \in S : WindowFrom(p) = ShortestWindow /\ p + WindowFrom(p) > Modulus}
CyclicFrom(p) ==
    [k \in 1..n |->
        LET q == CHOOSE q \in S :
                   Cardinality({t \in S : (t - p + Modulus) % Modulus
                                            < (q - p + Modulus) % Modulus})
                     = k - 1
        IN <<(q - p + Modulus) % Modulus, generate(scanner_model, q)>>]

(***************************************************************************)
(* C1: for each variant, generate maps the positions visited so far to     *)
(* identifiers in [0, 1000000) without producing one twice, and the        *)
(* inverse table holds at generate(p) the position p.                      *)
(***************************************************************************)
Visited == {p \in Sample : p < tbl_i}
C1_Bijection ==
    /\ \A p \in Visited :
         /\ icp_get_nth(p) \in 0..(Modulus - 1)
         /\ ice_get_nth(p) \in 0..(Modulus - 1)
    /\ Cardinality({icp_get_nth(p) : p \in Visited}) = Cardinality(Visited)
    /\ Cardinality({ice_get_nth(p) : p \in Visited}) = Cardinality(Visited)
    /\ DOMAIN icp_table = {icp_get_nth(p) : p \in Visited}
    /\ DOMAIN ice_table = {ice_get_nth(p) : p \in Visited}
    /\ \A p \in Visited :
         /\ icp_table[icp_get_nth(p)] = p
         /\ ice_table[ice_get_nth(p)] = p
C1_Witness ==
    /\ pc = "built"
    /\ Cardinality(DOMAIN icp_table) = Cardinality(Sample)
    /\ Cardinality(DOMAIN ice_table) = Cardinality(Sample)
    /\ icp_table[icp_get_nth(Modulus - 1)] = Modulus - 1

\* The value icp_inverse / ice_inverse compute is the value the table holds.
TableAgrees ==
    /\ \A id \in DOMAIN icp_table : icp_inverse(id) = icp_table[id]
    /\ \A id \in DOMAIN ice_table : ice_inverse(id) = ice_table[id]

(***************************************************************************)
(* C2, as stated: for a named variant and identifiers generated from any   *)
(* set S of n >= 1 positions on which the wraparound test does not fire,   *)
(* unshuffle returns MissingCount 0 and the identifiers in the ascending   *)
(* order of S.                                                             *)
(***************************************************************************)
C2_AnySetMissingZero ==
    (Called /\ Named /\ FromPositions /\ ~WrapTest) =>
        /\ pc = "returned"
        /\ fit = IntVal(0)
        /\ [k \in 1..n |-> results[k][2]]
             = [k \in 1..n |-> generate(scanner_model, Ascending(S)[k])]

(***************************************************************************)
(* C2, amended: for a named variant and identifiers generated from a set S *)
(* of n >= 1 consecutive positions (max S - min S + 1 = n) on which the    *)
(* wraparound test does not fire, unshuffle returns MissingCount 0 and the *)
(* pairs (k, generate(min S + k)) for k = 0..n-1 in this order.            *)
(***************************************************************************)
C2_PerfectReconstruction ==
    (Called /\ Named /\ FromPositions /\ ~WrapTest /\ Contiguous) =>
        /\ pc = "returned"
        /\ fit = IntVal(0)
        /\ results = [k \in 1..n |->
                        <<k - 1, generate(scanner_model, MinOf(S) + k - 1)>>]
C2_Witness ==
    /\ pc = "returned"
    /\ Named /\ FromPositions /\ ~WrapTest /\ Contiguous
    /\ n >= 3
    /\ Pos[1] > Pos[2]
    /\ MinOf(S) > 0

(***************************************************************************)
(* C3: for a named variant and identifiers generated from consecutive      *)
(* positions modulo 1000000 that include both 999999 and 0, unshuffle      *)
(* returns MissingCount 0 and the pairs in cyclic scan order: the          *)
(* positions up to 999999 first, then those from 0 on.                     *)
(***************************************************************************)
Straddles ==
    /\ 0 \in S
    /\ Modulus - 1 \in S
    /\ \E p \in S : S = {(p + j) % Modulus : j \in 0..(n - 1)}
StraddleStart == CHOOSE p \in S : S = {(p + j) % Modulus : j \in 0..(n - 1)}
AsICP == unshuffle(record_ids, ICP)
AsICE == unshuffle(record_ids, ICE)
Score(r) == IF r.raised = "AttackFailed" THEN 1000000 ELSE r.missing.v
C4_Scored == Called /\ scanner_model = None /\ n >= 1 /\ RawDistinct
C4_ModelSelection ==
    C4_Scored =>
        LET best == IF Score(AsICP) < Score(AsICE) THEN AsICP ELSE AsICE
            least == IF Score(AsICP) <= Score(AsICE)
                     THEN Score(AsICP) ELSE Score(AsICE)
        IN /\ (pc = "raised" /\ raised = "AttackFailed")
                <=> (Score(AsICP) = 1000000 /\ Score(AsICE) = 1000000)
           /\ pc = "raised" => raised = "AttackFailed"
           /\ pc = "returned" =>
                /\ fit = IntVal(least)
                /\ results = best.results
                /\ fit = best.missing
C4_Witness ==
    /\ C4_Scored
    /\ pc = "returned"
    /\ n = 5
    /\ AsICP.raised = "none"
    /\ AsICE.raised = "AttackFailed"
    /\ results = AsICP.results
    /\ fit = IntVal(1)

(***************************************************************************)
(* C5: unshuffle of an empty list returns, for any model, an empty         *)
(* Reconstruction and the integer 0 as MissingCount.                       *)
(***************************************************************************)
C5_EmptyReturnsZero ==
    (Called /\ record_ids = <<>>) =>
        /\ pc = "returned"
        /\ results = <<>>
        /\ fit.tag = "int"
        /\ fit.v = 0

(***************************************************************************)
(* C6: unshuffle raises the precondition violation whenever two of its     *)
(* identifiers are equal after reduction modulo 1000000, and every call    *)
(* that returns has pairwise distinct positions and a MissingCount >= 0.   *)
(***************************************************************************)
ReducedDuplicate ==
    \E j, k \in DOMAIN record_ids :
        j # k /\ record_ids[j] % Modulus = record_ids[k] % Modulus
C6_DuplicateRejected ==
    Called =>
        /\ ReducedDuplicate => (pc = "raised" /\ raised = "AssertionError")
        /\ pc = "returned" =>
             /\ \A j, k \in DOMAIN results :
                    j # k => results[j][1] # results[k][1]
             /\ fit.tag = "int" => fit.v >= 0

(***************************************************************************)
(* C9: for a named variant and identifiers generated from a set S of n     *)
(* distinct positions on which the wraparound test does not fire, with     *)
(* span = max S - min S + 1: unshuffle raises AttackFailed if span > 10*n, *)
(* and otherwise returns MissingCount span - n and exactly the pairs       *)
(* (p - min S, generate(p)), p in S, ascending by position.                *)
(***************************************************************************)
C9_Plausibility ==
    (Called /\ Named /\ FromPositions /\ ~WrapTest) =>
        LET lo == MinOf(S)
            span == MaxOf(S) - lo + 1
        IN IF span > 10 * n
           THEN pc = "raised" /\ raised = "AttackFailed"
           ELSE /\ pc = "returned"
                /\ fit = IntVal(span - n)
                /\ Len(results) = n
                /\ Range(results)
                     = {<<p - lo, generate(scanner_model, p)>> : p \in S}
                /\ \A k \in 1..(n - 1) : results[k][1] < results[k + 1][1]
                /\ results[1][1] = 0
                /\ results[n][1] = MaxOf(S) - lo
C9_Witness ==
    /\ pc = "returned"
    /\ Named /\ FromPositions
    /\ S = {0, 1, 2, 4, 5}
    /\ fit = IntVal(1)
    /\ Len(results) = 5
    /\ results[5][1] = 5

(***************************************************************************)
(* C10: for a named variant and identifiers generated from a set S of n    *)
(* distinct positions whose shortest enclosing cyclic window runs across   *)
(* the 999999/0 boundary and has length L <= 10*n, unshuffle returns       *)
(* MissingCount L - n and the pairs in cyclic scan order.                  *)
(***************************************************************************)
C10_CrossingWindowAccepted ==
    (Called /\ Named /\ FromPositions /\ CrossingStarts # {}
       /\ ShortestWindow <= 10 * n) =>
        /\ pc = "returned"
        /\ fit = IntVal(ShortestWindow - n)
        /\ \E p \in CrossingStarts : results = CyclicFrom(p)

(***************************************************************************)
(* C7, as stated: a non-empty batch with a model name other than the two   *)
(* variants (and not unspecified) ends in an UnsupportedModel error that   *)
(* leaves process_files; the batch is not recorded as safe.                *)
(***************************************************************************)
Unsupported == scanner_model \notin {ICP, ICE, None}
LastEntry == log[Len(log)]
C7_UnsupportedModelSurfaced ==
    (Len(log) > 0 /\ Unsupported /\ n >= 1) =>
        /\ raised = "UnsupportedModel"
        /\ LastEntry.tag # "safe"
        /\ pc = "crashed"

(***************************************************************************)
(* C7, amended: a non-empty batch of pairwise different record ids with a  *)
(* model name other than the two variants (and not unspecified) makes      *)
(* unshuffle raise AttackFailed; process_files records the batch as safe,  *)
(* adds its size to count_ballots only, and goes on.                       *)
(***************************************************************************)
C7_UnsupportedModelIsSafe ==
    (Len(log) > 0 /\ Unsupported /\ n >= 1 /\ RawDistinct) =>
        /\ raised = "AttackFailed"
        /\ LastEntry = [size |-> n, raised |-> "AttackFailed", tag |-> "safe"]
        /\ pc # "crashed"
C7_Witness ==
    /\ Len(log) = 2
    /\ Unsupported /\ n = 2 /\ RawDistinct
    /\ pc = "loop"
    /\ log[1].tag = "vulnerable"
    /\ LastEntry.tag = "safe"
    /\ count_ballots = log[1].size + 2
    /\ count_vulnerable = log[1].size

(***************************************************************************)
(* C8: while process_files runs and when it has reported, count_ballots is *)
(* the sum of the sizes of the batches taken and count_vulnerable the sum  *)
(* over those on which unshuffle did not raise AttackFailed, so            *)
(* count_vulnerable <= count_ballots; a batch that raised AttackFailed     *)
(* leaves the loop running; the percentage reported is                     *)
(* 100 * count_vulnerable / count_ballots truncated toward zero.           *)
(***************************************************************************)
RECURSIVE SumSizes(_, _)
SumSizes(entries, except) ==
    IF entries = <<>> THEN 0
    ELSE (IF entries[1].raised = except THEN 0 ELSE entries[1].size)
           + SumSizes(Tail(entries), except)
C8_Totals ==
    /\ pc # "crashed" =>
         /\ count_ballots = SumSizes(log, "no exception")
         /\ count_vulnerable = SumSizes(log, "AttackFailed")
         /\ count_vulnerable <= count_ballots
    /\ (Len(log) > 0 /\ LastEntry.raised = "AttackFailed") => pc # "crashed"
    /\ pc = "reported" =>
         /\ percent \in 0..100
         /\ percent * count_ballots <= 100 * count_vulnerable
         /\ 100 * count_vulnerable < (percent + 1) * count_ballots
C8_Witness ==
    /\ pc = "reported"
    /\ Len(log) = 3
    /\ \E k \in 1..3 : log[k].raised = "AttackFailed" /\ k < 3
    /\ count_ballots = 3
    /\ count_vulnerable = 2
    /\ percent = 66

====
